---- MODULE Spec2Model ----
(***************************************************************************)
(* Model of the import_default_config management command of               *)
(* safe-config-service (chains/management/commands/import_default_config). *)
(* One run of the command is handle(): it reads the environment, opens a   *)
(* transaction, calls import_features, import_wallets, import_safe_apps    *)
(* and import_chains for the enabled items, and leaves the transaction.    *)
(* The database tables are the state; the JSON documents, the environment  *)
(* and the answers of the image server are the inputs.                     *)
(***************************************************************************)
EXTENDS Integers, Sequences, FiniteSets, TLC

VARIABLES
    ChainFeature,     \* chains.Feature table: the set of keys
    Wallet,           \* chains.Wallet table: the set of keys
    SafeApp,          \* safe_apps.SafeApp table: the set of rows
    Tag,              \* safe_apps.Tag table: the set of names
    SafeAppFeature,   \* safe_apps.Feature table: the set of keys
    Chain,            \* chains.Chain table: id -> row
    committed,        \* the tables as last committed (what a rollback restores)
    needs_rollback,   \* the connection's flag: the open transaction is broken
    pc,               \* where handle() is: idle, an item of import_flags, exit
    default_chain_ids,\* handle's local: list of chain id strings
    import_flags,     \* handle's local: item -> enabled
    loaded,           \* what load_json_data returned in this run, per document
    stdout,           \* the lines written by this run
    environ,          \* the process environment of this run
    uri_in,           \* a blockExplorerUri handed to the template derivation
    uri_out           \* the api template derived from uri_in

vars == <<ChainFeature, Wallet, SafeApp, Tag, SafeAppFeature, Chain, committed,
          needs_rollback, pc, default_chain_ids, import_flags, loaded, stdout,
          environ, uri_in, uri_out>>

tables == <<ChainFeature, Wallet, SafeApp, Tag, SafeAppFeature, Chain>>

(***************************************************************************)
(* Bounds of the model.                                                    *)
(***************************************************************************)
MaxDocLen == 2
MaxSlashes == 2

(***************************************************************************)
(* Sequences and strings.  A string the code takes apart (the value of     *)
(* DEFAULT_CHAIN_IDS, a block explorer URI) is a sequence of characters.   *)
(***************************************************************************)
Range(s) == {s[i] : i \in DOMAIN s}

SeqsUpTo(S, n) == UNION {[1..k -> S] : k \in 0..n}

NoDuplicates(s) == \A i, j \in DOMAIN s : s[i] = s[j] => i = j

StartsWith(s, p) == Len(s) >= Len(p) /\ SubSeq(s, 1, Len(p)) = p

Drop(s, n) == SubSeq(s, n + 1, Len(s))

\* str.upper(), on the letters the inputs use
upper_char(c) ==
    CASE c = "a" -> "A"
      [] c = "l" -> "L"
      [] OTHER -> c

str_upper(s) == [i \in DOMAIN s |-> upper_char(s[i])]

\* str.strip(): leading and trailing blanks removed
RECURSIVE lstrip(_)
lstrip(s) == IF s # <<>> /\ Head(s) = " " THEN lstrip(Tail(s)) ELSE s

RECURSIVE rstrip(_, _)
rstrip(s, c) ==
    IF s # <<>> /\ s[Len(s)] = c THEN rstrip(SubSeq(s, 1, Len(s) - 1), c) ELSE s

strip(s) == rstrip(lstrip(s), " ")

\* str.split(','): the pieces between the commas, empty pieces included
RECURSIVE split(_, _, _)
split(s, sep, cur) ==
    IF s = <<>> THEN <<cur>>
    ELSE IF Head(s) = sep THEN <<cur>> \o split(Tail(s), sep, <<>>)
    ELSE split(Tail(s), sep, Append(cur, Head(s)))

Digits == <<"0", "1", "2", "3", "4", "5", "6", "7", "8", "9">>

\* str(n) for a natural number
RECURSIVE int_to_str(_)
int_to_str(n) ==
    IF n < 10 THEN <<Digits[n + 1]>>
    ELSE Append(int_to_str(n \div 10), Digits[(n % 10) + 1])

IsDigit(c) == \E d \in DOMAIN Digits : Digits[d] = c

DigitValue(c) == (CHOOSE d \in DOMAIN Digits : Digits[d] = c) - 1

\* int(s) accepts a non-empty string of digits and raises ValueError otherwise
IsIntLiteral(s) == s # <<>> /\ \A i \in DOMAIN s : IsDigit(s[i])

RECURSIVE str_to_int(_)
str_to_int(s) ==
    IF Len(s) = 1 THEN DigitValue(s[1])
    ELSE 10 * str_to_int(SubSeq(s, 1, Len(s) - 1)) + DigitValue(s[Len(s)])

(***************************************************************************)
(* Output lines: self.stdout.write(self.style.LEVEL(text)).  n is the      *)
(* number or chain id a line carries, exc the exception it prints.         *)
(***************************************************************************)
NoExc == [type |-> "", arg |-> ""]

Exc(type, arg) == [type |-> type, arg |-> arg]

Line(level, text, n, exc) == [level |-> level, text |-> text, n |-> n, exc |-> exc]

Wrote(text) == \E i \in DOMAIN stdout : stdout[i].text = text

(***************************************************************************)
(* The state after construction: empty tables, no run in progress.         *)
(***************************************************************************)
NotLoaded == [set |-> FALSE, doc |-> <<>>]

Loaded(doc) == [set |-> TRUE, doc |-> doc]

NothingLoaded ==
    [features |-> NotLoaded, wallets |-> NotLoaded,
     safe_apps |-> NotLoaded, chains |-> NotLoaded]

NoFlags ==
    [features |-> FALSE, wallets |-> FALSE, safe_apps |-> FALSE, chains |-> FALSE]

Snapshot ==
    [ChainFeature |-> ChainFeature, Wallet |-> Wallet, SafeApp |-> SafeApp,
     Tag |-> Tag, SafeAppFeature |-> SafeAppFeature, Chain |-> Chain]

EmptyMap == [x \in {} |-> 0]

\* os.getenv's defaults: DEFAULT_CHAIN_IDS '' and the IMPORT_ flags '0'
NoEnviron ==
    [DEFAULT_CHAIN_IDS |-> <<>>, IMPORT_FEATURES |-> "0",
     IMPORT_WALLETS |-> "0", IMPORT_SAFE_APPS |-> "0"]

NoRun ==
    /\ ChainFeature = {}
    /\ Wallet = {}
    /\ SafeApp = {}
    /\ Tag = {}
    /\ SafeAppFeature = {}
    /\ Chain = EmptyMap
    /\ committed = [ChainFeature |-> {}, Wallet |-> {}, SafeApp |-> {},
                    Tag |-> {}, SafeAppFeature |-> {}, Chain |-> EmptyMap]
    /\ needs_rollback = FALSE
    /\ pc = "idle"
    /\ default_chain_ids = <<>>
    /\ import_flags = NoFlags
    /\ loaded = NothingLoaded
    /\ stdout = <<>>
    /\ environ = NoEnviron

Init ==
    /\ NoRun
    /\ uri_in = <<>>
    /\ uri_out = ""

(***************************************************************************)
(* handle(): the environment is read and the transaction opened.           *)
(***************************************************************************)
ALL == <<"A", "L", "L">>

\* the items of import_flags, in the dict's order
Items == <<"features", "wallets", "safe_apps", "chains">>

\* for item, flag in import_flags.items(): if flag: ... -- the first item
\* from position i on whose flag is set, "exit" when the loop is over
RECURSIVE Dispatch(_, _)
Dispatch(flags, i) ==
    IF i > Len(Items) THEN "exit"
    ELSE IF flags[Items[i]] THEN Items[i]
    ELSE Dispatch(flags, i + 1)

Position(item) == CHOOSE i \in DOMAIN Items : Items[i] = item

NextItem(item) == Dispatch(import_flags, Position(item) + 1)

\* [chain_id.strip() for chain_id in raw.split(',') if chain_id.strip()]
parse_chain_ids(raw) ==
    LET pieces == split(raw, ",", <<>>)
        stripped == [i \in DOMAIN pieces |-> strip(pieces[i])]
    IN  SelectSeq(stripped, LAMBDA p : p # <<>>)

\* [str(chain['chainId']) for chain in chains_data]
all_chain_ids(chains_data) ==
    [i \in DOMAIN chains_data |-> int_to_str(chains_data[i].chainId)]

\* os.getenv('DEFAULT_CHAIN_IDS', '').upper() == 'ALL'
IsAll(env) == str_upper(env.DEFAULT_CHAIN_IDS) = ALL

handle_begin(envs, chain_docs) ==
    /\ pc = "idle"
    /\ \E env \in envs :
         \E chains_data \in (IF IsAll(env) THEN chain_docs ELSE {<<>>}) :
            LET ids == IF IsAll(env)
                       THEN all_chain_ids(chains_data)
                       ELSE parse_chain_ids(env.DEFAULT_CHAIN_IDS)
                flags == [features |-> env.IMPORT_FEATURES = "1",
                          wallets |-> env.IMPORT_WALLETS = "1",
                          safe_apps |-> env.IMPORT_SAFE_APPS = "1",
                          chains |-> ids # <<>>]
            IN  /\ environ' = env
                /\ default_chain_ids' = ids
                /\ import_flags' = flags
                /\ pc' = Dispatch(flags, 1)
                /\ loaded' = [NothingLoaded EXCEPT
                                !.chains = IF IsAll(env)
                                           THEN Loaded(chains_data)
                                           ELSE NotLoaded]
    /\ stdout' = <<>>
    /\ needs_rollback' = FALSE
    /\ UNCHANGED <<tables, committed, uri_in, uri_out>>

\* the transaction is left: committed, or rolled back when it is broken
handle_end ==
    /\ pc = "exit"
    /\ IF needs_rollback
       THEN /\ ChainFeature' = committed.ChainFeature
            /\ Wallet' = committed.Wallet
            /\ SafeApp' = committed.SafeApp
            /\ Tag' = committed.Tag
            /\ SafeAppFeature' = committed.SafeAppFeature
            /\ Chain' = committed.Chain
            /\ UNCHANGED committed
       ELSE /\ committed' = Snapshot
            /\ UNCHANGED tables
    /\ needs_rollback' = FALSE
    /\ default_chain_ids' = <<>>
    /\ import_flags' = NoFlags
    /\ loaded' = NothingLoaded
    /\ stdout' = <<>>
    /\ environ' = NoEnviron
    /\ pc' = "idle"
    /\ UNCHANGED <<uri_in, uri_out>>

(***************************************************************************)
(* import_features and import_wallets.                                     *)
(***************************************************************************)
\* Wallet.key and ChainFeature.key are unique: a batch insert that repeats a
\* key, or names one the table holds, raises IntegrityError
violates_unique(table, keys) ==
    \/ ~NoDuplicates(keys)
    \/ \E i \in DOMAIN keys : keys[i] \in table

\* The body of import_features / import_wallets on one table.  A query in a
\* broken transaction raises; bulk_create runs in an atomic block without a
\* savepoint, so its failure marks the transaction broken.
import_keys(table, data, broken, what) ==
    LET new == SelectSeq(data, LAMBDA k : k \notin table) IN
    IF broken
    THEN [table |-> table, broken |-> TRUE,
          line |-> Line("ERROR", "Error importing " \o what, 0,
                        Exc("TransactionManagementError", ""))]
    ELSE IF new # <<>> /\ violates_unique(table, new)
    THEN [table |-> table, broken |-> TRUE,
          line |-> Line("ERROR", "Error importing " \o what, 0,
                        Exc("IntegrityError", ""))]
    ELSE [table |-> table \cup Range(new), broken |-> FALSE,
          line |-> Line("SUCCESS", "Imported new " \o what, Len(new), NoExc)]

import_features(docs) ==
    /\ pc = "features"
    /\ import_flags.features
    /\ \E features_data \in docs :
         LET r == import_keys(ChainFeature, features_data, needs_rollback, "features")
         IN  /\ ChainFeature' = r.table
             /\ needs_rollback' = r.broken
             /\ stdout' = Append(stdout, r.line)
             /\ loaded' = [loaded EXCEPT !.features = Loaded(features_data)]
    /\ pc' = NextItem(pc)
    /\ UNCHANGED <<Wallet, SafeApp, Tag, SafeAppFeature, Chain, committed,
                   default_chain_ids, import_flags, environ, uri_in, uri_out>>

import_wallets(docs) ==
    /\ pc = "wallets"
    /\ import_flags.wallets
    /\ \E wallets_data \in docs :
         LET r == import_keys(Wallet, wallets_data, needs_rollback, "wallets")
         IN  /\ Wallet' = r.table
             /\ needs_rollback' = r.broken
             /\ stdout' = Append(stdout, r.line)
             /\ loaded' = [loaded EXCEPT !.wallets = Loaded(wallets_data)]
    /\ pc' = NextItem(pc)
    /\ UNCHANGED <<ChainFeature, SafeApp, Tag, SafeAppFeature, Chain, committed,
                   default_chain_ids, import_flags, environ, uri_in, uri_out>>

(***************************************************************************)
(* Runs that import features and wallets only (DEFAULT_CHAIN_IDS unset,    *)
(* IMPORT_SAFE_APPS off).                                                  *)
(***************************************************************************)
FeatureKeys == {"EIP1271", "F_X"}

WalletKeys == {"metamask", "W_X"}

Environs(raws, features, wallets, safe_apps) ==
    [DEFAULT_CHAIN_IDS : raws, IMPORT_FEATURES : features,
     IMPORT_WALLETS : wallets, IMPORT_SAFE_APPS : safe_apps]

FeatureDocs == SeqsUpTo(FeatureKeys, MaxDocLen)

WalletDocs == SeqsUpTo(WalletKeys, MaxDocLen)

KeyEnvirons == Environs({<<>>}, {"0", "1"}, {"0", "1"}, {"0"})

NextKeys ==
    \/ handle_begin(KeyEnvirons, {<<>>})
    \/ import_features(FeatureDocs)
    \/ import_wallets(WalletDocs)
    \/ handle_end

SpecKeys == Init /\ [][NextKeys]_vars

(***************************************************************************)
(* import_safe_apps.  An app descriptor of safeApps.json is a record;      *)
(* has_name, has_description, has_icon_url, has_tags and has_features say  *)
(* whether the key is in the JSON object, and icon_response is what the    *)
(* image server answers for the descriptor's iconUrl: status "ok" with a   *)
(* content of `size` bytes, or "error" (the request raises).               *)
(***************************************************************************)
\* validate_safe_app_icon_size accepts contents up to this size
MaxIconSize == 2

\* validate_safe_app_icon_size(icon_content) raises ValidationError
icon_too_large(size) == size > MaxIconSize

NoIcon == 0

RowsWith(table, url) == {r \in table : r.url = url}

\* chain_ids = app_data.get('chainIds') or default_chain_ids, then int() of each
app_chain_ids(app_data, ids) ==
    IF app_data.chainIds # <<>>
    THEN [ok |-> TRUE, ids |-> app_data.chainIds]
    ELSE IF \A i \in DOMAIN ids : IsIntLiteral(ids[i])
    THEN [ok |-> TRUE, ids |-> [i \in DOMAIN ids |-> str_to_int(ids[i])]]
    ELSE [ok |-> FALSE, ids |-> <<>>]

\* A faulty _handle_icon_upload, without the except ValidationError clause
handle_icon_upload_propagates(safe_app, app_data) ==
    IF ~app_data.has_icon_url
    THEN [row |-> safe_app, lines |-> <<>>, exc |-> NoExc]
    ELSE IF app_data.icon_response.status = "error"
    THEN [row |-> safe_app, exc |-> NoExc,
          lines |-> <<Line("WARNING", "Failed to download icon", 0,
                           Exc("RequestException", ""))>>]
    ELSE IF icon_too_large(app_data.icon_response.size)
    THEN [row |-> safe_app, lines |-> <<>>, exc |-> Exc("ValidationError", "")]
    ELSE [row |-> [safe_app EXCEPT !.icon = app_data.icon_response.size],
          lines |-> <<>>, exc |-> NoExc]

\* _handle_icon_upload: the row with its icon, and the warning written if any
handle_icon_upload(safe_app, app_data) ==
    IF ~app_data.has_icon_url
    THEN [row |-> safe_app, lines |-> <<>>, exc |-> NoExc]
    ELSE IF app_data.icon_response.status = "error"
    THEN [row |-> safe_app, exc |-> NoExc,
          lines |-> <<Line("WARNING", "Failed to download icon", 0,
                           Exc("RequestException", ""))>>]
    ELSE IF icon_too_large(app_data.icon_response.size)
    THEN [row |-> safe_app, exc |-> NoExc,
          lines |-> <<Line("WARNING", "Skipping icon", 0,
                           Exc("ValidationError", ""))>>]
    ELSE [row |-> [safe_app EXCEPT !.icon = app_data.icon_response.size],
          lines |-> <<>>, exc |-> NoExc]

\* app_data.get('tags', []) and app_data.get('features', [])
tags_of(app_data) == IF app_data.has_tags THEN app_data.tags ELSE <<>>

features_of(app_data) == IF app_data.has_features THEN app_data.features ELSE <<>>

\* A faulty _handle_tags, with tag_set.add in place of tag_set.set
handle_tags_union(safe_app, app_data) ==
    [safe_app EXCEPT !.tags = @ \cup Range(tags_of(app_data))]

\* _handle_tags: get_or_create each tag, then safe_app.tag_set.set(tag_objects)
handle_tags(safe_app, app_data) ==
    [safe_app EXCEPT !.tags = Range(tags_of(app_data))]

\* _handle_features, the same on the feature relation
handle_features(safe_app, app_data) ==
    [safe_app EXCEPT !.features = Range(features_of(app_data))]

\* SafeApp.objects.update_or_create(url=..., defaults={...}): the row found or
\* created, with the defaults written to it
update_or_create_app(table, app_data, chain_ids) ==
    LET found == RowsWith(table, app_data.url)
        description == IF app_data.has_description THEN app_data.description ELSE ""
    IN  IF Cardinality(found) > 1
        THEN [exc |-> Exc("MultipleObjectsReturned", ""), created |-> FALSE,
              old |-> {}, row |-> CHOOSE r \in found : TRUE]
        ELSE IF found = {}
        THEN [exc |-> NoExc, created |-> TRUE, old |-> {},
              row |-> [url |-> app_data.url, name |-> app_data.name,
                       description |-> description,
                       chain_ids |-> chain_ids, listed |-> TRUE,
                       icon |-> NoIcon, tags |-> {}, features |-> {}]]
        ELSE LET r == CHOOSE r \in found : TRUE
             IN  [exc |-> NoExc, created |-> FALSE, old |-> {r},
                  row |-> [r EXCEPT !.name = app_data.name,
                                    !.description = description,
                                    !.chain_ids = chain_ids,
                                    !.listed = TRUE]]

\* The body of the loop for one descriptor, on the state st of the loop:
\* the three tables, the lines written, the counters and the exception raised
safe_app_step(st, app_data, ids, broken) ==
    LET cids == app_chain_ids(app_data, ids) IN
    IF ~cids.ok THEN [st EXCEPT !.exc = Exc("ValueError", "")]
    ELSE IF ~app_data.has_name THEN [st EXCEPT !.exc = Exc("KeyError", "name")]
    ELSE IF broken THEN [st EXCEPT !.exc = Exc("TransactionManagementError", "")]
    ELSE
    LET uc == update_or_create_app(st.SafeApp, app_data, cids.ids) IN
    IF uc.exc # NoExc THEN [st EXCEPT !.exc = uc.exc]
    ELSE
    LET ic == handle_icon_upload(uc.row, app_data)
        row == handle_features(handle_tags(ic.row, app_data), app_data)
    IN  IF ic.exc # NoExc
        THEN [st EXCEPT !.exc = ic.exc, !.lines = @ \o ic.lines]
        ELSE [st EXCEPT
                !.SafeApp = (@ \ uc.old) \cup {row},
                !.Tag = @ \cup Range(tags_of(app_data)),
                !.SafeAppFeature = @ \cup Range(features_of(app_data)),
                !.lines = @ \o ic.lines,
                !.imported = IF uc.created THEN @ + 1 ELSE @,
                !.updated = IF uc.created THEN @ ELSE @ + 1]

\* for app_data in safe_apps_data: ..., stopped by the first exception
RECURSIVE safe_apps_loop(_, _, _, _)
safe_apps_loop(st, apps, ids, broken) ==
    IF apps = <<>> \/ st.exc # NoExc THEN st
    ELSE safe_apps_loop(safe_app_step(st, Head(apps), ids, broken),
                        Tail(apps), ids, broken)

\* A faulty import_safe_apps, whose nested block has no savepoint
after_safe_apps_exception_marks_broken(broken) == TRUE

\* with transaction.atomic() inside import_safe_apps: the nested block has a
\* savepoint, and rolling back to it leaves the outer transaction as it was
after_safe_apps_exception(broken) == broken

\* import_safe_apps: the loop inside a nested atomic block, whose savepoint
\* is rolled back by an exception; every exception is caught and logged
import_safe_apps(docs) ==
    /\ pc = "safe_apps"
    /\ import_flags.safe_apps
    /\ \E safe_apps_data \in docs :
         LET st0 == [SafeApp |-> SafeApp, Tag |-> Tag,
                     SafeAppFeature |-> SafeAppFeature, lines |-> <<>>,
                     imported |-> 0, updated |-> 0, exc |-> NoExc]
             st == safe_apps_loop(st0, safe_apps_data, default_chain_ids,
                                  needs_rollback)
         IN  /\ loaded' = [loaded EXCEPT !.safe_apps = Loaded(safe_apps_data)]
             /\ IF st.exc = NoExc
                THEN /\ SafeApp' = st.SafeApp
                     /\ Tag' = st.Tag
                     /\ SafeAppFeature' = st.SafeAppFeature
                     /\ stdout' = stdout \o st.lines \o
                          <<Line("SUCCESS", "Imported new safe apps, updated existing",
                                 st.imported, NoExc)>>
                     /\ UNCHANGED needs_rollback
                ELSE /\ UNCHANGED <<SafeApp, Tag, SafeAppFeature>>
                     /\ stdout' = stdout \o st.lines \o
                          <<Line("ERROR", "Error importing safe apps", 0, st.exc)>>
                     /\ needs_rollback' = after_safe_apps_exception(needs_rollback)
    /\ pc' = NextItem(pc)
    /\ UNCHANGED <<ChainFeature, Wallet, Chain, committed,
                   default_chain_ids, import_flags, environ, uri_in, uri_out>>

(***************************************************************************)
(* Runs that import safe apps only (IMPORT_SAFE_APPS=1, the rest off).     *)
(***************************************************************************)
OkIcon(size) == [status |-> "ok", size |-> size]

NoResponse == [status |-> "error", size |-> 0]

App(url, has_name, name, has_description, chainIds, has_icon_url, icon_response, has_tags, tags, has_features, features) ==
    [url |-> url, has_name |-> has_name, name |-> name,
     has_description |-> has_description, description |-> "about " \o name,
     chainIds |-> chainIds, has_icon_url |-> has_icon_url,
     icon_response |-> icon_response, has_tags |-> has_tags, tags |-> tags,
     has_features |-> has_features, features |-> features]

AppPool ==
    { App("u1", TRUE, "A", TRUE, <<1>>, FALSE, NoResponse, FALSE, <<>>, FALSE, <<>>),
      App("u1", TRUE, "A2", FALSE, <<>>, TRUE, OkIcon(MaxIconSize),
          TRUE, <<"t1", "t2">>, TRUE, <<"f1">>),
      App("u1", TRUE, "A", TRUE, <<1, 2>>, TRUE, OkIcon(MaxIconSize + 1),
          TRUE, <<"t2">>, FALSE, <<>>),
      App("u1", TRUE, "A3", FALSE, <<>>, TRUE, NoResponse,
          TRUE, <<"t1">>, TRUE, <<"f2">>),
      App("u1", FALSE, "", FALSE, <<>>, FALSE, NoResponse, FALSE, <<>>, FALSE, <<>>),
      App("u2", TRUE, "B", FALSE, <<2>>, TRUE, OkIcon(1),
          TRUE, <<"t1">>, TRUE, <<"f1">>),
      App("u2", TRUE, "B", TRUE, <<2>>, TRUE, OkIcon(MaxIconSize + 1),
          TRUE, <<>>, FALSE, <<>>) }

AppDocs == SeqsUpTo(AppPool, MaxDocLen)

AppEnvirons == Environs({<<>>}, {"0"}, {"0"}, {"1"})

NextApps ==
    \/ handle_begin(AppEnvirons, {<<>>})
    \/ import_safe_apps(AppDocs)
    \/ handle_end

SpecApps == Init /\ [][NextApps]_vars

(***************************************************************************)
(* import_chains.  A chain descriptor of chains.json is a record: explorer *)
(* says which block explorer key the object has ("template" for            *)
(* blockExplorerUriTemplate, "uri" for blockExplorerUri, "none"), the RPC  *)
(* keys hold a JSON value (absent, a string, or an object with optional    *)
(* 'value' and 'authentication'), and chainLogoUri / logoUri say what the  *)
(* image server does for the logo ("absent" when the key is missing).      *)
(***************************************************************************)
Absent == [t |-> "absent", value |-> "", authentication |-> ""]

Str(v) == [t |-> "str", value |-> v, authentication |-> ""]

\* an object; "" stands for a key the object does not have
Obj(value, authentication) ==
    [t |-> "obj", value |-> value, authentication |-> authentication]

\* the member names of Chain.RpcAuthentication
RpcAuthentication == {"API_KEY_PATH", "NO_AUTHENTICATION"}

HTTPS == <<"h", "t", "t", "p", "s", ":", "/", "/">>

HTTP == <<"h", "t", "t", "p", ":", "/", "/">>

HTTPS_API == HTTPS \o <<"a", "p", "i", ".">>

\* ''.join: the characters as one string
RECURSIVE join(_)
join(s) == IF s = <<>> THEN "" ELSE Head(s) \o join(Tail(s))

\* re.sub(r'^https?://', 'https://api.', s)
re_sub_scheme(s) ==
    IF StartsWith(s, HTTPS) THEN HTTPS_API \o Drop(s, Len(HTTPS))
    ELSE IF StartsWith(s, HTTP) THEN HTTPS_API \o Drop(s, Len(HTTP))
    ELSE s

ApiQuery == "/api?module={module}&action={action}&address={address}&apiKey={apiKey}"

\* the three templates derived from blockExplorerUri
block_explorer_templates(blockExplorerUri) ==
    LET block_explorer == rstrip(blockExplorerUri, "/") IN
    [address |-> join(block_explorer) \o "/address/{{address}}",
     txHash |-> join(block_explorer) \o "/tx/{{txHash}}",
     api |-> join(re_sub_scheme(block_explorer)) \o ApiQuery]

\* chain_data.get(key, {}).get("value") or chain_data["rpcUri"]: the value
\* stored, or the exception raised
rpc_uri_of(chain_data, key) ==
    LET j == chain_data[key] IN
    IF j.t = "str" THEN [exc |-> Exc("AttributeError", "get"), uri |-> Absent]
    ELSE IF j.t = "obj" /\ j.value # "" THEN [exc |-> NoExc, uri |-> Str(j.value)]
    ELSE IF chain_data.rpcUri.t = "absent"
    THEN [exc |-> Exc("KeyError", "rpcUri"), uri |-> Absent]
    ELSE [exc |-> NoExc, uri |-> chain_data.rpcUri]

\* Chain.RpcAuthentication[chain_data.get(key, {}).get("authentication",
\* "NO_AUTHENTICATION")]
rpc_authentication_of(chain_data, key) ==
    LET j == chain_data[key]
        name == IF j.t = "obj" /\ j.authentication # ""
                THEN j.authentication ELSE "NO_AUTHENTICATION"
    IN  IF j.t = "str" THEN [exc |-> Exc("AttributeError", "get"), auth |-> ""]
        ELSE IF name \notin RpcAuthentication
        THEN [exc |-> Exc("KeyError", name), auth |-> ""]
        ELSE [exc |-> NoExc, auth |-> name]

FirstExc(excs) ==
    IF \A i \in DOMAIN excs : excs[i] = NoExc THEN NoExc
    ELSE excs[CHOOSE i \in DOMAIN excs :
                /\ excs[i] # NoExc
                /\ \A j \in DOMAIN excs : excs[j] # NoExc => i <= j]

NoDefaults ==
    [rpc_uri |-> Str(""), rpc_authentication |-> "",
     safe_apps_rpc_uri |-> Str(""), safe_apps_rpc_authentication |-> "",
     public_rpc_uri |-> Str(""), public_rpc_authentication |-> "",
     block_explorer_uri_address_template |-> "",
     block_explorer_uri_api_template |-> ""]

\* _prepare_chain_defaults: the defaults, None (kind "none", with the warning
\* written) or the exception raised while the dict is built, key by key
prepare_chain_defaults(chain_data) ==
    IF chain_data.explorer = "none"
    THEN [kind |-> "none", exc |-> NoExc, defaults |-> NoDefaults]
    ELSE
    LET tpl == IF chain_data.explorer = "template"
               THEN chain_data.blockExplorerUriTemplate
               ELSE block_explorer_templates(chain_data.blockExplorerUri)
        u1 == rpc_uri_of(chain_data, "rpcUri")
        a1 == rpc_authentication_of(chain_data, "rpcUri")
        u2 == rpc_uri_of(chain_data, "safeAppsRpcUri")
        a2 == rpc_authentication_of(chain_data, "safeAppsRpcUri")
        u3 == rpc_uri_of(chain_data, "publicRpcUri")
        a3 == rpc_authentication_of(chain_data, "publicRpcUri")
        exc == FirstExc(<<u1.exc, a1.exc, u2.exc, a2.exc, u3.exc, a3.exc>>)
    IN  IF exc # NoExc
        THEN [kind |-> "raise", exc |-> exc, defaults |-> NoDefaults]
        ELSE [kind |-> "defaults", exc |-> NoExc,
              defaults |->
                [rpc_uri |-> u1.uri, rpc_authentication |-> a1.auth,
                 safe_apps_rpc_uri |-> u2.uri,
                 safe_apps_rpc_authentication |-> a2.auth,
                 public_rpc_uri |-> u3.uri,
                 public_rpc_authentication |-> a3.auth,
                 block_explorer_uri_address_template |-> tpl.address,
                 block_explorer_uri_api_template |-> tpl.api]]

\* a Chain row: the columns of the defaults, the two logos and the relations
NewChainRow(defaults) ==
    [rpc_uri |-> defaults.rpc_uri,
     rpc_authentication |-> defaults.rpc_authentication,
     safe_apps_rpc_uri |-> defaults.safe_apps_rpc_uri,
     safe_apps_rpc_authentication |-> defaults.safe_apps_rpc_authentication,
     public_rpc_uri |-> defaults.public_rpc_uri,
     public_rpc_authentication |-> defaults.public_rpc_authentication,
     block_explorer_uri_address_template |->
         defaults.block_explorer_uri_address_template,
     block_explorer_uri_api_template |-> defaults.block_explorer_uri_api_template,
     chain_logo_uri |-> FALSE, currency_logo_uri |-> FALSE,
     wallets |-> {}, features |-> {}]

Put(table, id, row) ==
    [x \in DOMAIN table \cup {id} |-> IF x = id THEN row ELSE table[x]]

\* Chain.objects.update_or_create(id=chain_id, defaults=chain_defaults).  With
\* defaults None an existing row is saved as it is, and a missing one is
\* created from the model's own defaults, which the database accepts or
\* rejects (bare_ok): the columns' constraints are not in this file.
update_or_create_chain(table, chain_id, prep, bare_ok) ==
    IF chain_id \in DOMAIN table
    THEN [exc |-> NoExc, created |-> FALSE,
          row |-> IF prep.kind = "none" THEN table[chain_id]
                  ELSE LET d == prep.defaults IN
                       [table[chain_id] EXCEPT
                          !.rpc_uri = d.rpc_uri,
                          !.rpc_authentication = d.rpc_authentication,
                          !.safe_apps_rpc_uri = d.safe_apps_rpc_uri,
                          !.safe_apps_rpc_authentication =
                              d.safe_apps_rpc_authentication,
                          !.public_rpc_uri = d.public_rpc_uri,
                          !.public_rpc_authentication = d.public_rpc_authentication,
                          !.block_explorer_uri_address_template =
                              d.block_explorer_uri_address_template,
                          !.block_explorer_uri_api_template =
                              d.block_explorer_uri_api_template]]
    ELSE IF prep.kind = "none" /\ ~bare_ok
    THEN [exc |-> Exc("IntegrityError", ""), created |-> FALSE,
          row |-> NewChainRow(NoDefaults)]
    ELSE [exc |-> NoExc, created |-> TRUE, row |-> NewChainRow(prep.defaults)]

\* _upload_image: requests.get raises ("error"), or answers 200 and the image
\* is saved, or answers another status and nothing is done
upload_image(had, status) ==
    IF status = "error" THEN [exc |-> Exc("ConnectionError", ""), has |-> had]
    ELSE IF status = "200" THEN [exc |-> NoExc, has |-> TRUE]
    ELSE [exc |-> NoExc, has |-> had]

default_wallets == <<"metamask", "ledger", "trezor", "walletConnect_v2">>

default_features ==
    <<"EIP1271", "COUNTERFACTUAL", "DELETE_TX", "SAFE_141",
      "SAFE_APPS", "SAFE_TX_GAS_OPTIONAL", "SPEED_UP_TX">>

\* chain_data.get("features", default_features)
features_to_add(chain_data) ==
    IF chain_data.has_features THEN chain_data.features ELSE default_features

\* A faulty linking, with feature_set.set in place of feature_set.add
link_features_replacing(row, keys) == [row EXCEPT !.features = Range(keys)]

\* chain.feature_set.add(feature) for each key
link_features(row, keys) == [row EXCEPT !.features = @ \cup Range(keys)]

\* chain.wallet_set.add(wallet) for each key
link_wallets(row, keys) == [row EXCEPT !.wallets = @ \cup Range(keys)]

\* The body of the loop for one descriptor, on the state st of the loop: the
\* three tables it writes, the lines written and the exception raised.  What
\* was written before an exception stays written.
chain_step(st, chain_data, broken, bare_ok) ==
    LET chain_id == chain_data.chainId
        prep == prepare_chain_defaults(chain_data)
        warned == IF prep.kind = "none"
                  THEN <<Line("WARNING", "No block explorer found for chain",
                              0, NoExc)>>
                  ELSE <<>>
    IN
    IF prep.kind = "raise" THEN [st EXCEPT !.exc = prep.exc]
    ELSE IF broken
    THEN [st EXCEPT !.exc = Exc("TransactionManagementError", ""),
                    !.lines = @ \o warned]
    ELSE
    LET uc == update_or_create_chain(st.Chain, chain_id, prep, bare_ok) IN
    IF uc.exc # NoExc THEN [st EXCEPT !.exc = uc.exc, !.lines = @ \o warned]
    ELSE
    LET logo == IF chain_data.chainLogoUri = "absent"
                THEN [exc |-> NoExc, has |-> uc.row.chain_logo_uri]
                ELSE upload_image(uc.row.chain_logo_uri, chain_data.chainLogoUri)
        row1 == [uc.row EXCEPT !.chain_logo_uri = logo.has]
    IN
    IF logo.exc # NoExc
    THEN [st EXCEPT !.Chain = Put(@, chain_id, row1), !.exc = logo.exc,
                    !.lines = @ \o warned]
    ELSE
    LET cur == IF chain_data.logoUri = "absent"
               THEN [exc |-> NoExc, has |-> row1.currency_logo_uri]
               ELSE upload_image(row1.currency_logo_uri, chain_data.logoUri)
        row2 == [row1 EXCEPT !.currency_logo_uri = cur.has]
    IN
    IF cur.exc # NoExc
    THEN [st EXCEPT !.Chain = Put(@, chain_id, row2), !.exc = cur.exc,
                    !.lines = @ \o warned]
    ELSE
    LET row3 == link_features(link_wallets(row2, default_wallets),
                              features_to_add(chain_data))
    IN  [st EXCEPT
           !.Chain = Put(@, chain_id, row3),
           !.Wallet = @ \cup Range(default_wallets),
           !.ChainFeature = @ \cup Range(features_to_add(chain_data)),
           !.lines = @ \o warned \o
                <<Line("SUCCESS",
                       IF uc.created THEN "Created chain" ELSE "Updated chain",
                       chain_id, NoExc)>>]

\* for chain_data in chains_to_import: ..., stopped by the first exception
RECURSIVE chains_loop(_, _, _, _)
chains_loop(st, chains, broken, bare_ok) ==
    IF chains = <<>> \/ st.exc # NoExc THEN st
    ELSE chains_loop(chain_step(st, Head(chains), broken, bare_ok),
                     Tail(chains), broken, bare_ok)

\* [chain for chain in chains_data if str(chain["chainId"]) in default_chain_ids]
chains_to_import(chains_data, ids) ==
    SelectSeq(chains_data,
              LAMBDA chain : int_to_str(chain.chainId) \in Range(ids))

\* A faulty import_chains, whose loop sits inside a savepoint
chains_outcome_rolled_back(st0, st) == IF st.exc = NoExc THEN st ELSE
    [st EXCEPT !.Chain = st0.Chain, !.Wallet = st0.Wallet,
               !.ChainFeature = st0.ChainFeature]

\* What import_chains leaves when its loop ends: there is no savepoint around
\* the loop, so the writes made before an exception stay in the transaction
chains_outcome(st0, st) == st

import_chains(docs) ==
    /\ pc = "chains"
    /\ import_flags.chains
    /\ \E chains_data \in (IF loaded.chains.set THEN {loaded.chains.doc} ELSE docs),
          bare_ok \in BOOLEAN :
         LET to_import == chains_to_import(chains_data, default_chain_ids)
             st0 == [Chain |-> Chain, Wallet |-> Wallet,
                     ChainFeature |-> ChainFeature, lines |-> <<>>, exc |-> NoExc]
             st == chains_outcome(st0,
                       chains_loop(st0, to_import, needs_rollback, bare_ok))
         IN  /\ loaded' = [loaded EXCEPT !.chains = Loaded(chains_data)]
             /\ Chain' = st.Chain
             /\ Wallet' = st.Wallet
             /\ ChainFeature' = st.ChainFeature
             /\ stdout' = stdout \o st.lines \o
                  (IF to_import = <<>>
                   THEN <<Line("WARNING",
                               "No chains found with the provided chain IDs",
                               0, NoExc)>>
                   ELSE IF st.exc = NoExc
                   THEN <<Line("SUCCESS", "Chain import completed successfully",
                               0, NoExc)>>
                   ELSE <<Line("ERROR", "Error importing chains", 0, st.exc)>>)
    /\ pc' = NextItem(pc)
    /\ UNCHANGED <<SafeApp, Tag, SafeAppFeature, committed, needs_rollback,
                   default_chain_ids, import_flags, environ, uri_in, uri_out>>

(***************************************************************************)
(* Runs that import chains only (the three IMPORT_ flags off).             *)
(***************************************************************************)
Chars(host) ==
    CASE host = "e.io" -> <<"e", ".", "i", "o">>
      [] host = "x.org" -> <<"x", ".", "o", "r", "g">>
      [] host = "etherscan.io" ->
           <<"e", "t", "h", "e", "r", "s", "c", "a", "n", ".", "i", "o">>

NoTemplate == [address |-> "", txHash |-> "", api |-> ""]

ExplorerTemplate ==
    [address |-> "https://e.io/address/{{address}}",
     txHash |-> "https://e.io/tx/{{txHash}}",
     api |-> "https://api.e.io/api"]

ChainDescriptor(chainId, explorer, blockExplorerUri, rpcUri, safeAppsRpcUri, publicRpcUri, has_features, features, chainLogoUri, logoUri) ==
    [chainId |-> chainId, explorer |-> explorer,
     blockExplorerUriTemplate |->
         IF explorer = "template" THEN ExplorerTemplate ELSE NoTemplate,
     blockExplorerUri |-> blockExplorerUri, rpcUri |-> rpcUri,
     safeAppsRpcUri |-> safeAppsRpcUri, publicRpcUri |-> publicRpcUri,
     has_features |-> has_features, features |-> features,
     chainLogoUri |-> chainLogoUri, logoUri |-> logoUri]

\* well-formed: every RPC key an object with a value
GoodChain(chainId) ==
    ChainDescriptor(chainId, "template", <<>>, Obj("rpc", "NO_AUTHENTICATION"),
                    Obj("rpc-apps", "API_KEY_PATH"), Obj("rpc-public", ""),
                    FALSE, <<>>, "200", "absent")

\* blockExplorerUri, and the safe-apps and public RPC keys left out
UriChain(chainId) ==
    ChainDescriptor(chainId, "uri", HTTPS \o Chars("e.io") \o <<"/">>,
                    Obj("rpc", "API_KEY_PATH"), Absent, Absent,
                    TRUE, <<"F_X">>, "absent", "404")

\* no block explorer key
NoExplorerChain(chainId) ==
    ChainDescriptor(chainId, "none", <<>>, Obj("rpc", "NO_AUTHENTICATION"),
                    Obj("rpc-apps", ""), Obj("rpc-public", ""),
                    TRUE, <<"F_Y">>, "absent", "absent")

\* an authentication mode that is no member of the enum
BadAuthChain(chainId) ==
    ChainDescriptor(chainId, "template", <<>>, Obj("rpc", "BASIC"),
                    Obj("rpc-apps", ""), Obj("rpc-public", ""),
                    FALSE, <<>>, "absent", "absent")

\* rpcUri a bare string
BareRpcChain(chainId) ==
    ChainDescriptor(chainId, "uri", Chars("x.org"), Str("rpc"),
                    Obj("rpc-apps", ""), Obj("rpc-public", ""),
                    TRUE, <<>>, "absent", "absent")

\* the logo download fails
LogoErrorChain(chainId) ==
    ChainDescriptor(chainId, "template", <<>>, Obj("rpc", ""),
                    Obj("rpc-apps", ""), Obj("rpc-public", ""),
                    TRUE, <<"F_Y">>, "absent", "error")

ChainIds == {1, 2}

ChainPool ==
    {GoodChain(1), UriChain(1), NoExplorerChain(1), BadAuthChain(1),
     BareRpcChain(1), GoodChain(2), LogoErrorChain(2)}

ChainDocs == SeqsUpTo(ChainPool, MaxDocLen)

ChainEnvirons ==
    Environs({ALL, <<"1">>, <<"1", ",", " ", "2">>}, {"0"}, {"0"}, {"0"})

NextChains ==
    \/ handle_begin(ChainEnvirons, ChainDocs)
    \/ import_chains(ChainDocs)
    \/ handle_end

SpecChains == Init /\ [][NextChains]_vars

(***************************************************************************)
(* The template derivation on its own: _prepare_chain_defaults on a        *)
(* descriptor that has blockExplorerUri and no blockExplorerUriTemplate.   *)
(***************************************************************************)
Slashes(n) == [i \in 1..n |-> "/"]

UriInputs ==
    {scheme \o Chars(host) \o path \o Slashes(n) :
        scheme \in {HTTPS, HTTP, <<>>},
        host \in {"e.io", "x.org", "etherscan.io"},
        path \in {<<>>, <<"/", "a">>},
        n \in 0..MaxSlashes}

InitUri ==
    /\ NoRun
    /\ uri_in \in UriInputs
    /\ uri_out = ""

derive_api_template ==
    /\ uri_out = ""
    /\ uri_in # <<>>
    /\ uri_out' = block_explorer_templates(uri_in).api
    /\ UNCHANGED <<tables, committed, needs_rollback, pc, default_chain_ids,
                   import_flags, loaded, stdout, environ, uri_in>>

NextUri == derive_api_template

SpecUri == InitUri /\ [][NextUri]_vars

(***************************************************************************)
(* The whole command: every combination of the IMPORT_ flags, with         *)
(* DEFAULT_CHAIN_IDS unset, a list, or ALL in either case.                 *)
(***************************************************************************)
SmallFeatureDocs == {<<"EIP1271", "F_X">>, <<"F_X", "F_X">>}

SmallWalletDocs == {<<"W_X", "metamask">>}

GoodApp ==
    App("u1", TRUE, "A", TRUE, <<>>, TRUE, OkIcon(1), TRUE, <<"t1">>, FALSE, <<>>)

NamelessApp ==
    App("u2", FALSE, "", FALSE, <<>>, FALSE, NoResponse, FALSE, <<>>, FALSE, <<>>)

SmallAppDocs == {<<GoodApp>>, <<GoodApp, NamelessApp>>}

SmallChainDocs ==
    {<<GoodChain(1)>>, <<GoodChain(1), UriChain(2)>>,
     <<BareRpcChain(1), GoodChain(2)>>}

AllEnvirons ==
    Environs({<<>>, ALL, <<"a", "l", "l">>, <<"1">>},
             {"0", "1"}, {"0", "1"}, {"0", "1"})

Next ==
    \/ handle_begin(AllEnvirons, SmallChainDocs)
    \/ import_features(SmallFeatureDocs)
    \/ import_wallets(SmallWalletDocs)
    \/ import_safe_apps(SmallAppDocs)
    \/ import_chains(SmallChainDocs)
    \/ handle_end

Spec == Init /\ [][Next]_vars

(***************************************************************************)
(* Properties of import_features / import_wallets (SpecKeys) and of        *)
(* import_safe_apps (SpecApps).  Within a run only import_features writes  *)
(* ChainFeature before import_chains has run, only import_wallets writes   *)
(* Wallet before it and only import_safe_apps writes SafeApp, so           *)
(* `committed` holds the table as the import found it.                     *)
(***************************************************************************)
AfterFeatures ==
    loaded.features.set /\ ~loaded.wallets.set /\ ~loaded.safe_apps.set
    /\ (loaded.chains.set => pc # "exit")

AfterWallets ==
    loaded.wallets.set /\ ~loaded.safe_apps.set
    /\ (loaded.chains.set => pc # "exit")

AfterSafeApps == loaded.safe_apps.set /\ (loaded.chains.set => pc # "exit")

\* C1: import_features and import_wallets are insert-if-absent and idempotent:
\* for every table content and every document (a list of keys) the run inserts
\* exactly the document's keys that the table lacks, leaves the others alone,
\* and a second run with the same document inserts nothing.
C1_InsertIfAbsent ==
    /\ AfterFeatures =>
         /\ ChainFeature = committed.ChainFeature \cup Range(loaded.features.doc)
         /\ import_keys(ChainFeature, loaded.features.doc, FALSE, "features").table
              = ChainFeature
    /\ AfterWallets =>
         /\ Wallet = committed.Wallet \cup Range(loaded.wallets.doc)
         /\ import_keys(Wallet, loaded.wallets.doc, FALSE, "wallets").table = Wallet

\* the last descriptor of the document for a URL: the one whose upsert stands
NamedIn(doc, url) == \E i \in DOMAIN doc : doc[i].url = url

LastFor(doc, url) ==
    doc[CHOOSE i \in DOMAIN doc :
          /\ doc[i].url = url
          /\ \A j \in DOMAIN doc : doc[j].url = url => j <= i]

AppRaises(app_data) ==
    ~app_data.has_name \/ ~app_chain_ids(app_data, default_chain_ids).ok

SafeAppsImported == Wrote("Imported new safe apps, updated existing")

AppUrls == {a.url : a \in AppPool}

\* C2: after successful import_safe_apps runs there is one SafeApp row per URL
\* named in the documents, and the row's tag and feature sets are exactly those
\* of the latest document naming the URL (overwritten, not merged; empty when
\* the descriptor has no 'tags' / 'features' key).  Stated per run: no URL ever
\* has two rows; a successful run leaves each URL of its document with one row
\* carrying the descriptor's sets and leaves every other URL's row as it was;
\* a failed run leaves the table as it was.
C2_UpsertOverwrite ==
    /\ \A r1, r2 \in SafeApp : r1.url = r2.url => r1 = r2
    /\ AfterSafeApps =>
         IF SafeAppsImported
         THEN \A u \in AppUrls :
                IF NamedIn(loaded.safe_apps.doc, u)
                THEN \E r \in SafeApp :
                       /\ r.url = u
                       /\ r.tags = Range(tags_of(LastFor(loaded.safe_apps.doc, u)))
                       /\ r.features =
                            Range(features_of(LastFor(loaded.safe_apps.doc, u)))
                ELSE RowsWith(SafeApp, u) = RowsWith(committed.SafeApp, u)
         ELSE SafeApp = committed.SafeApp

\* C2's case: a row that an earlier run left with tags and features is named
\* again by a descriptor without either key, and ends with both sets empty
C2_Witness ==
    /\ AfterSafeApps
    /\ SafeAppsImported
    /\ \E old \in committed.SafeApp, r \in SafeApp :
         /\ old.url = r.url
         /\ old.tags # {} /\ old.features # {}
         /\ NamedIn(loaded.safe_apps.doc, r.url)
         /\ ~LastFor(loaded.safe_apps.doc, r.url).has_tags
         /\ r.tags = {} /\ r.features = {}

Oversized(app_data) ==
    /\ app_data.has_icon_url
    /\ app_data.icon_response.status = "ok"
    /\ app_data.icon_response.size > MaxIconSize

IconBefore(url) ==
    IF RowsWith(committed.SafeApp, url) = {} THEN NoIcon
    ELSE (CHOOSE r \in RowsWith(committed.SafeApp, url) : TRUE).icon

\* C6: a downloaded icon above the maximum size is rejected with a warning and
\* stores nothing, while the app's row is still created or updated with the
\* document's name, description, chain_ids and listed = true, its tags and
\* features are set, and the other apps of the document are processed too.
C6_OversizedIconRejected ==
    (/\ AfterSafeApps
     /\ \E i \in DOMAIN loaded.safe_apps.doc : Oversized(loaded.safe_apps.doc[i])
     /\ \A i \in DOMAIN loaded.safe_apps.doc : ~AppRaises(loaded.safe_apps.doc[i]))
    => LET doc == loaded.safe_apps.doc IN
       /\ Wrote("Skipping icon")
       /\ SafeAppsImported
       /\ \A r \in SafeApp : r.icon <= MaxIconSize
       /\ \A i \in DOMAIN doc :
            LET d == LastFor(doc, doc[i].url) IN
            \E r \in SafeApp :
               /\ r.url = d.url
               /\ r.name = d.name
               /\ r.description = (IF d.has_description THEN d.description ELSE "")
               /\ r.chain_ids = app_chain_ids(d, default_chain_ids).ids
               /\ r.listed
               /\ r.tags = Range(tags_of(d))
               /\ r.features = Range(features_of(d))
               /\ (Oversized(doc[i])
                   /\ \A j \in DOMAIN doc : doc[j].url = doc[i].url => j = i)
                  => r.icon = IconBefore(d.url)

\* C6's case: the oversized icon belongs to the first of two apps, one whose
\* row exists with an icon and is updated, the other created by this run
C6_Witness ==
    /\ AfterSafeApps
    /\ SafeAppsImported
    /\ Len(loaded.safe_apps.doc) = 2
    /\ Oversized(loaded.safe_apps.doc[1])
    /\ loaded.safe_apps.doc[2].url # loaded.safe_apps.doc[1].url
    /\ IconBefore(loaded.safe_apps.doc[1].url) # NoIcon
    /\ RowsWith(committed.SafeApp, loaded.safe_apps.doc[2].url) = {}
    /\ \E r \in SafeApp :
         /\ r.url = loaded.safe_apps.doc[1].url
         /\ r.icon = IconBefore(r.url)
         /\ r.name = loaded.safe_apps.doc[1].name
         /\ r \notin committed.SafeApp

(***************************************************************************)
(* Properties of import_chains (SpecChains).  Every descriptor the loop    *)
(* finishes writes one "Created chain" / "Updated chain" line, so the      *)
(* lines say how far the loop came; only import_chains writes Chain, so    *)
(* committed.Chain is the table as the import found it.                    *)
(***************************************************************************)
AfterChains == pc = "exit" /\ import_flags.chains /\ loaded.chains.set

Requested == chains_to_import(loaded.chains.doc, default_chain_ids)

ChainLines ==
    SelectSeq(stdout, LAMBDA l : l.text \in {"Created chain", "Updated chain"})

ReportedChains == {ChainLines[i].n : i \in DOMAIN ChainLines}

ChainsFailed == Wrote("Error importing chains")

ChainsCompleted == Wrote("Chain import completed successfully")

RowOrNone(table, id) == IF id \in DOMAIN table THEN {table[id]} ELSE {}

InvalidAuth(chain_data) ==
    /\ prepare_chain_defaults(chain_data).kind = "raise"
    /\ prepare_chain_defaults(chain_data).exc.type = "KeyError"
    /\ prepare_chain_defaults(chain_data).exc.arg \notin RpcAuthentication
    /\ prepare_chain_defaults(chain_data).exc.arg # "rpcUri"

\* the loop stopped at a descriptor whose authentication mode is no enum member
FailedOnAuth ==
    /\ AfterChains
    /\ Len(ChainLines) < Len(Requested)
    /\ InvalidAuth(Requested[Len(ChainLines) + 1])

\* C5 as claimed: an authentication mode outside the enum aborts the
\* transaction and the command, and no write of the run is persisted, the
\* chains processed earlier in the run included.
C5_NothingPersisted == [][FailedOnAuth => committed' = committed]_vars

\* C5 as the code has it: the lookup error is caught by import_chains' own
\* except block and logged, the rest of the document is not processed, the
\* command goes on to its end, and the chains processed earlier in the run
\* are committed with it.
C5_CaughtEarlierChainsKept ==
    [][FailedOnAuth =>
         /\ ChainsFailed
         /\ ~ChainsCompleted
         /\ \A i \in DOMAIN stdout :
              stdout[i].text = "Error importing chains"
              => i = Len(stdout) /\ stdout[i].exc.type = "KeyError"
         /\ pc' = "idle"
         /\ \A id \in ReportedChains :
              /\ id \in DOMAIN committed'.Chain
              /\ committed'.Chain[id] = Chain[id]
              /\ default_wallets[1] \in committed'.Chain[id].wallets]_vars

\* C5's case: a chain is created, then the next descriptor fails the lookup
C5_Witness ==
    /\ FailedOnAuth
    /\ \E id \in ReportedChains : id \notin DOMAIN committed.Chain /\ id \in DOMAIN Chain

\* a descriptor the import takes without raising
Importable(chain_data) ==
    /\ prepare_chain_defaults(chain_data).kind = "defaults"
    /\ chain_data.chainLogoUri # "error"
    /\ chain_data.logoUri # "error"

\* C8: a descriptor with neither block explorer key is skipped with a warning
\* and without an exception: no Chain row is created or updated for it, no
\* wallet or feature is linked to it, and the other chains of the document are
\* still imported.
C8_SkippedWithWarning ==
    (/\ AfterChains
     /\ \A i \in DOMAIN Requested :
          Requested[i].explorer = "none" \/ Importable(Requested[i]))
    => /\ ~ChainsFailed
       /\ \A i \in DOMAIN Requested :
            IF Requested[i].explorer = "none"
            THEN /\ Wrote("No block explorer found for chain")
                 /\ (\A j \in DOMAIN Requested :
                        Requested[j].chainId = Requested[i].chainId
                        => Requested[j].explorer = "none")
                    => RowOrNone(Chain, Requested[i].chainId)
                         = RowOrNone(committed.Chain, Requested[i].chainId)
            ELSE Requested[i].chainId \in ReportedChains

\* the last requested descriptor for a chain id
LastChainFor(id) ==
    Requested[CHOOSE i \in DOMAIN Requested :
                /\ Requested[i].chainId = id
                /\ \A j \in DOMAIN Requested : Requested[j].chainId = id => j <= i]

\* rpcUri in one of its two shapes, the rest of the descriptor in order
RpcShapesOnly(chain_data) ==
    /\ chain_data.explorer # "none"
    /\ chain_data.rpcUri.t \in {"str", "obj"}
    /\ chain_data.rpcUri.value # ""
    /\ chain_data.rpcUri.authentication \in RpcAuthentication \cup {""}
    /\ \A key \in {"safeAppsRpcUri", "publicRpcUri"} :
         /\ chain_data[key].t \in {"absent", "obj"}
         /\ chain_data[key].authentication \in RpcAuthentication \cup {""}
    /\ chain_data.chainLogoUri # "error"
    /\ chain_data.logoUri # "error"

\* C9: rpcUri is accepted as an object {value, authentication}, whose 'value'
\* is stored, and as a bare string, which is stored as it is, the chain being
\* imported without error; the stored rpc_uri, safe_apps_rpc_uri and
\* public_rpc_uri are always URI strings, never the raw object.
C9_BothRpcShapes ==
    (/\ AfterChains
     /\ \A i \in DOMAIN Requested : RpcShapesOnly(Requested[i]))
    => /\ ~ChainsFailed
       /\ \A i \in DOMAIN Requested :
            LET d == LastChainFor(Requested[i].chainId) IN
            /\ d.chainId \in DOMAIN Chain
            /\ Chain[d.chainId].rpc_uri = Str(d.rpcUri.value)
            /\ Chain[d.chainId].safe_apps_rpc_uri.t = "str"
            /\ Chain[d.chainId].public_rpc_uri.t = "str"

\* the ids a run may touch: those of default_chain_ids
IsRequestedId(id) == int_to_str(id) \in Range(default_chain_ids)

AllChainIds == ChainIds \cup DOMAIN Chain \cup DOMAIN committed.Chain

LinksKept(before, after) ==
    \A id \in DOMAIN before :
       /\ id \in DOMAIN after
       /\ before[id].wallets \subseteq after[id].wallets
       /\ before[id].features \subseteq after[id].features

\* C10: every chain the import finishes is linked to the four default wallets
\* (whose rows exist afterwards, IMPORT_WALLETS on or off) and to the features
\* of its descriptor's list, or to the seven default features without one;
\* links are only ever added, in the run and from one committed state to the
\* next; and no chain outside the requested ids is created or modified.
C10_LinksAdditive ==
    /\ [](AfterChains =>
            \A i \in 1..Len(ChainLines) :
               LET d == Requested[i] IN
               /\ d.chainId = ChainLines[i].n
               /\ d.chainId \in DOMAIN Chain
               /\ Range(default_wallets) \subseteq Chain[d.chainId].wallets
               /\ Range(default_wallets) \subseteq Wallet
               /\ Cardinality(Range(default_wallets)) = 4
               /\ Range(features_to_add(d)) \subseteq Chain[d.chainId].features
               /\ Range(features_to_add(d)) \subseteq ChainFeature
               /\ ~d.has_features =>
                    /\ Range(default_features) \subseteq Chain[d.chainId].features
                    /\ Cardinality(Range(default_features)) = 7)
    /\ [][/\ LinksKept(committed.Chain, committed'.Chain)
          /\ pc = "chains" =>
               /\ LinksKept(Chain, Chain')
               /\ \A id \in AllChainIds \cup DOMAIN Chain' :
                    ~IsRequestedId(id)
                    => RowOrNone(Chain', id) = RowOrNone(Chain, id)
          /\ pc = "exit" =>
               \A id \in AllChainIds \cup DOMAIN committed'.Chain :
                  ~IsRequestedId(id)
                  => RowOrNone(committed'.Chain, id)
                       = RowOrNone(committed.Chain, id)]_vars

\* C10's case: with IMPORT_WALLETS off and no wallet rows yet, a chain that an
\* earlier run linked to a feature is imported again by a descriptor without
\* that feature and keeps it, while the document's other chain, not among the
\* requested ids, is left out
C10_Witness ==
    /\ AfterChains
    /\ ChainsCompleted
    /\ ~import_flags.wallets
    /\ \E i \in DOMAIN loaded.chains.doc :
         /\ ~IsRequestedId(loaded.chains.doc[i].chainId)
         /\ loaded.chains.doc[i].chainId \notin DOMAIN Chain
    /\ \E id \in ReportedChains :
         /\ id \in DOMAIN committed.Chain
         /\ ~LastChainFor(id).has_features
         /\ committed.Chain[id].features # {}
         /\ committed.Chain[id].features \cap Range(default_features) = {}
         /\ committed.Chain[id].features \subseteq Chain[id].features
         /\ Range(default_features) \subseteq Chain[id].features

(***************************************************************************)
(* Properties of the template derivation (SpecUri).                        *)
(***************************************************************************)
WithoutScheme(s) ==
    IF StartsWith(s, HTTPS) THEN Drop(s, Len(HTTPS))
    ELSE IF StartsWith(s, HTTP) THEN Drop(s, Len(HTTP))
    ELSE s

\* C7: for a descriptor with blockExplorerUri and no blockExplorerUriTemplate
\* the derived api template has the host prefixed with 'api.' and the input's
\* scheme stripped, whatever the input's shape (https://, http://, no scheme,
\* trailing slash); 'https://etherscan.io' gives
\* 'https://api.etherscan.io/api?module={module}&action={action}&address={address}&apiKey={apiKey}'.
C7_ApiHostPrefixed ==
    uri_out # "" =>
       /\ uri_out \in
            {prefix \o join(WithoutScheme(rstrip(uri_in, "/"))) \o ApiQuery :
                prefix \in {"https://api.", "api."}}
       /\ uri_in = HTTPS \o Chars("etherscan.io") =>
            uri_out = "https://api.etherscan.io/api?module={module}&action={action}&address={address}&apiKey={apiKey}"

(***************************************************************************)
(* Properties of the whole command (Spec).                                 *)
(***************************************************************************)
\* C3: with DEFAULT_CHAIN_IDS = 'ALL' in any case, a run leaves a Chain row
\* for every chainId of chains.json, whatever the three IMPORT_ flags are.
C3_AllChainsImported ==
    [][(pc = "exit" /\ IsAll(environ)) =>
         \A i \in DOMAIN loaded.chains.doc :
            loaded.chains.doc[i].chainId \in DOMAIN committed'.Chain]_vars

SafeAppsFailed == loaded.safe_apps.set /\ Wrote("Error importing safe apps")

KeysFailed ==
    Wrote("Error importing features") \/ Wrote("Error importing wallets")

\* C4: a failure of import_safe_apps on some record is caught and logged
\* inside import_safe_apps and undoes only the safe apps; import_chains is
\* dispatched next and runs to its last line, the chains it reports are
\* committed when the run ends, and in a transaction that the earlier imports
\* left intact it imports every importable requested chain.
C4_SafeAppsFailureContained ==
    /\ [](/\ (loaded.safe_apps.set /\ ~SafeAppsImported) =>
               /\ SafeAppsFailed
               /\ SafeApp = committed.SafeApp
               /\ Tag = committed.Tag
          /\ (SafeAppsFailed /\ import_flags.chains) => pc \in {"chains", "exit"}
          /\ (SafeAppsFailed /\ import_flags.chains /\ pc = "exit") =>
               /\ loaded.chains.set
               /\ stdout[Len(stdout)].text \in
                    {"Chain import completed successfully",
                     "Error importing chains",
                     "No chains found with the provided chain IDs"}
               /\ (~KeysFailed /\ \A i \in DOMAIN Requested : Importable(Requested[i]))
                  => /\ Requested # <<>> => ChainsCompleted
                     /\ \A i \in DOMAIN Requested :
                          Requested[i].chainId \in ReportedChains)
    /\ [][(pc = "exit" /\ SafeAppsFailed /\ import_flags.chains) =>
            /\ pc' = "idle"
            /\ \A id \in ReportedChains :
                 /\ id \in DOMAIN committed'.Chain
                 /\ committed'.Chain[id] = Chain[id]]_vars

\* C4's case: the second app of the document raises, after which a chain is
\* created by the same run
C4_Witness ==
    /\ pc = "exit"
    /\ SafeAppsFailed
    /\ Len(loaded.safe_apps.doc) = 2
    /\ ~AppRaises(loaded.safe_apps.doc[1])
    /\ AppRaises(loaded.safe_apps.doc[2])
    /\ ChainsCompleted
    /\ \E id \in ReportedChains : id \notin DOMAIN committed.Chain /\ id \in DOMAIN Chain

====
